---------------------------- MODULE Spec2Model ----------------------------
(***************************************************************************)
(* Bee-Tek card shoe monitor (src/main.py): the serial text stream, its    *)
(* classification into alarm / warning / failed-read / card events, and    *)
(* the SerialMonitor worker thread with its stop request.                  *)
(*                                                                         *)
(* Text is a sequence of one-character strings.  Positions are 1-based; a  *)
(* match is a pair <<start, end>> where end is the position just after the *)
(* last matched character (Python's match.end() + 1).                      *)
(* Time is counted in ticks of 0.05 s (the poll sleep of the read loop).   *)
(***************************************************************************)
EXTENDS Integers, Sequences, FiniteSets

(***************************************************************************)
(* Program constants                                                       *)
(***************************************************************************)
\* RETRY_DELAY = 2.5 s, in ticks of 0.05 s
RETRY_DELAY == 50
\* time.sleep(0.05) at the end of every read iteration, in ticks
POLL_SLEEP == 1
\* time.sleep(0.1) of the generic read-error handler, in ticks
EXC_SLEEP == 2
\* len(text_buffer) > 2000
BUFFER_LIMIT == 2000
\* text_buffer[-1000:]
BUFFER_KEEP == 1000

(***************************************************************************)
(* Characters                                                              *)
(***************************************************************************)
UPPERS == <<"A","B","C","D","E","F","G","H","I","J","K","L","M","N","O","P","Q","R","S","T","U","V","W","X","Y","Z">>
LOWERS == <<"a","b","c","d","e","f","g","h","i","j","k","l","m","n","o","p","q","r","s","t","u","v","w","x","y","z">>
DIGITS == {"0","1","2","3","4","5","6","7","8","9"}
\* a byte >= 0x80 on the wire: not ASCII
NON_ASCII == "x80"
Chars == {UPPERS[i] : i \in 1..26} \cup {LOWERS[i] : i \in 1..26} \cup DIGITS
           \cup {" ", "[", "]", "<", ">", ":", "#", NON_ASCII}

\* str.lower() / re.IGNORECASE folding of one ASCII character
LowerOf == [c \in Chars |-> IF \E i \in 1..26 : UPPERS[i] = c
                               THEN LOWERS[CHOOSE i \in 1..26 : UPPERS[i] = c]
                               ELSE c]
\* str.upper() of one ASCII character
UpperOf == [c \in Chars |-> IF \E i \in 1..26 : LOWERS[i] = c
                               THEN UPPERS[CHOOSE i \in 1..26 : LOWERS[i] = c]
                               ELSE c]
Lower(s) == [k \in 1..Len(s) |-> LowerOf[s[k]]]
Upper(s) == [k \in 1..Len(s) |-> UpperOf[s[k]]]

\* bytes.decode('ascii', errors='ignore'): bytes that are not ASCII are dropped
Decode(chunk) == SelectSeq(chunk, LAMBDA c : c # NON_ASCII)

\* the literal lit occurs in s at position i, letter case ignored
LitAt(s, i, lit) ==
    /\ i >= 1
    /\ i + Len(lit) - 1 <= Len(s)
    /\ \A k \in 1..Len(lit) : LowerOf[s[i + k - 1]] = LowerOf[lit[k]]

\* Python's `needle in haystack`
Contains(haystack, needle) ==
    \E i \in 1..Len(haystack) : /\ i + Len(needle) - 1 <= Len(haystack)
                                /\ \A k \in 1..Len(needle) : haystack[i + k - 1] = needle[k]

SetMin(S) == CHOOSE x \in S : \A y \in S : x <= y

(***************************************************************************)
(* The four patterns.  P(s, i) is 0 when the pattern does not match at     *)
(* position i of s, and otherwise the position just after the match.  No   *)
(* pattern has two different matches from one start, so the regex engine's *)
(* backtracking order does not matter.                                     *)
(***************************************************************************)
LIT_OPEN == <<" ","[">>
LIT_GAME == <<"G","a","m","e">>
LIT_ALARMTAG == <<"A","l","a","r","m">>
LIT_MANUAL == <<"M","a","n","u","a","l"," ","B","u","r","n"," ","C","a","r","d","s">>
LIT_CARD == <<"]","<","C","a","r","d",":">>
LIT_CLOSE == <<">"," ">>
LIT_FAILED == <<"]","<","G","a","m","e",">"," ">>
LIT_ALARM == <<"]","<","A","l","a","r","m",":">>
LIT_WARN == <<"<","W","0","x">>

\* (?:Game|Manual Burn Cards) at position i: the position after the tag, or 0
OperationTag(s, i) ==
    IF LitAt(s, i, LIT_GAME) THEN i + Len(LIT_GAME)
    ELSE IF LitAt(s, i, LIT_MANUAL) THEN i + Len(LIT_MANUAL)
    ELSE 0

\* ([2-9TJQKA]|10) at position i: the position after the rank, or 0
RankEnd(s, i) ==
    IF i > Len(s) THEN 0
    ELSE IF LowerOf[s[i]] \in {"2","3","4","5","6","7","8","9","t","j","q","k","a"} THEN i + 1
    ELSE IF LitAt(s, i, <<"1","0">>) THEN i + 2
    ELSE 0

\* ' \[(?:Game|Manual Burn Cards)\]<Card:([2-9TJQKA]|10)([CDHS])> ', IGNORECASE
CARD_PATTERN(s, i) ==
    IF ~LitAt(s, i, LIT_OPEN) THEN 0
    ELSE LET t == OperationTag(s, i + 2)
         IN  IF t = 0 \/ ~LitAt(s, t, LIT_CARD) THEN 0
             ELSE LET r == RankEnd(s, t + Len(LIT_CARD))
                  IN  IF r = 0 \/ r > Len(s) THEN 0
                      ELSE IF LowerOf[s[r]] \notin {"c","d","h","s"} THEN 0
                      ELSE IF ~LitAt(s, r + 1, LIT_CLOSE) THEN 0
                      ELSE r + 3

\* group(1) and group(2) of a card match starting at i
CardRank(s, i) ==
    LET p == OperationTag(s, i + 2) + Len(LIT_CARD)
    IN  SubSeq(s, p, RankEnd(s, p) - 1)
CardSuit(s, i) ==
    LET p == OperationTag(s, i + 2) + Len(LIT_CARD)
    IN  <<s[RankEnd(s, p)]>>

\* ' \[(?:Game|Manual Burn Cards)\]<Game> ', IGNORECASE
FAILED_READ_PATTERN(s, i) ==
    IF ~LitAt(s, i, LIT_OPEN) THEN 0
    ELSE LET t == OperationTag(s, i + 2)
         IN  IF t = 0 \/ ~LitAt(s, t, LIT_FAILED) THEN 0
             ELSE t + Len(LIT_FAILED)

\* (?:Game(?:Alarm)?|Manual Burn Cards) followed by ']<Alarm:': the position
\* of the ']' or 0.  The optional group is tried first and given up when the
\* rest does not follow.
AlarmTag(s, i) ==
    LET ends == (IF LitAt(s, i, LIT_GAME) /\ LitAt(s, i + 4, LIT_ALARMTAG) THEN {i + 9} ELSE {})
                \cup (IF LitAt(s, i, LIT_GAME) THEN {i + 4} ELSE {})
                \cup (IF LitAt(s, i, LIT_MANUAL) THEN {i + Len(LIT_MANUAL)} ELSE {})
        ok   == {t \in ends : LitAt(s, t, LIT_ALARM)}
    IN  IF ok = {} THEN 0 ELSE SetMin(ok)

\* the position of the first '>' at or after p, or 0
FirstClose(s, p) ==
    LET qs == {q \in p..Len(s) : s[q] = ">"}
    IN  IF qs = {} THEN 0 ELSE SetMin(qs)

\* ' \[(?:Game(?:Alarm)?|Manual Burn Cards)\]<Alarm:([^>]+)> ', IGNORECASE
ALARM_PATTERN(s, i) ==
    IF ~LitAt(s, i, LIT_OPEN) THEN 0
    ELSE LET t == AlarmTag(s, i + 2)
         IN  IF t = 0 THEN 0
             ELSE LET p == t + Len(LIT_ALARM)
                      q == FirstClose(s, p)
                  IN  IF q = 0 \/ q = p THEN 0
                      ELSE IF ~LitAt(s, q, LIT_CLOSE) THEN 0
                      ELSE q + 2

\* group(1) of an alarm match starting at i
AlarmMessage(s, i) ==
    LET p == AlarmTag(s, i + 2) + Len(LIT_ALARM)
    IN  SubSeq(s, p, FirstClose(s, p) - 1)

IsHex(c) == LowerOf[c] \in DIGITS \cup {"a","b","c","d","e","f"}

\* '<(W0x[0-9A-Fa-f]+)>', IGNORECASE
WARNING_PATTERN(s, i) ==
    IF ~LitAt(s, i, LIT_WARN) THEN 0
    ELSE LET p  == i + Len(LIT_WARN)
             qs == {q \in p..Len(s) : ~IsHex(s[q])}
         IN  IF qs = {} THEN 0
             ELSE LET q == SetMin(qs)
                  IN  IF q = p \/ s[q] # ">" THEN 0 ELSE q + 1

\* group(1) of a warning match <<i, e>>
WarningCode(s, i, e) == SubSeq(s, i + 1, e - 2)

(***************************************************************************)
(* finditer / findall / sub: the matches of a pattern, leftmost first, not *)
(* overlapping.  ends[i] is the pattern's result at start i.               *)
(***************************************************************************)
RECURSIVE ScanFrom(_, _)
ScanFrom(ends, pos) ==
    LET starts == {i \in DOMAIN ends : i >= pos /\ ends[i] # 0}
    IN  IF starts = {} THEN <<>>
        ELSE LET i == SetMin(starts)
             IN  <<<<i, ends[i]>>>> \o ScanFrom(ends, ends[i])

\* the positions where a match can start: every pattern starts with a literal
\* character (a space, or '<' for a warning)
StartsWith(s, c) == {i \in 1..Len(s) : s[i] = c}

CardMatches(s)    == ScanFrom([i \in StartsWith(s, " ") |-> CARD_PATTERN(s, i)], 1)
FailedMatches(s)  == ScanFrom([i \in StartsWith(s, " ") |-> FAILED_READ_PATTERN(s, i)], 1)
AlarmMatches(s)   == ScanFrom([i \in StartsWith(s, " ") |-> ALARM_PATTERN(s, i)], 1)
WarningMatches(s) == ScanFrom([i \in StartsWith(s, "<") |-> WARNING_PATTERN(s, i)], 1)

\* pattern.sub('', s): s without the spans of the matches ms
RECURSIVE Cut(_, _, _)
Cut(s, ms, pos) ==
    IF ms = <<>> THEN SubSeq(s, pos, Len(s))
    ELSE SubSeq(s, pos, ms[1][1] - 1) \o Cut(s, Tail(ms), ms[1][2])
Sub(s, ms) == Cut(s, ms, 1)

(***************************************************************************)
(* Card parsing                                                            *)
(***************************************************************************)
\* one iteration of the loop of parse_cards_from_buffer: the card code of a
\* match with the given group(1) and group(2)
\* a variant that leaves the rank '10' as it is
NormalizeRank_KeepTen(rank) == rank

\* if rank == '10': rank = 'T'
NormalizeRank(rank) == IF rank = <<"1","0">> THEN <<"T">> ELSE rank

\* a variant that writes the rank before the suit
CardCode_RankFirst(rank0, suit0) ==
    NormalizeRank(Upper(rank0)) \o Upper(suit0)

CardCode(rank0, suit0) ==
    Upper(suit0) \o NormalizeRank(Upper(rank0))

\* a variant that returns the cards from the last match to the first
parse_cards_from_buffer_Reversed(text) ==
    LET ms == CardMatches(text)
    IN  [k \in 1..Len(ms) |-> CardCode(CardRank(text, ms[Len(ms) + 1 - k][1]),
                                       CardSuit(text, ms[Len(ms) + 1 - k][1]))]

parse_cards_from_buffer(text) ==
    LET ms == CardMatches(text)
    IN  [k \in 1..Len(ms) |-> CardCode(CardRank(text, ms[k][1]), CardSuit(text, ms[k][1]))]

(***************************************************************************)
(* Notifications: the callbacks handed to Clock.schedule_once, in the      *)
(* order they were scheduled.  text is a sequence of text fragments.       *)
(***************************************************************************)
Notify(kind, text, success) == [kind |-> kind, text |-> text, success |-> success]
on_connected      == Notify("connected", <<>>, TRUE)
on_disconnected   == Notify("disconnected", <<>>, FALSE)
on_error(text)    == Notify("error", text, FALSE)
on_card(text, ok) == Notify("card", text, ok)

LIT_CARD_NOT_READ == <<"c","a","r","d"," ","n","o","t"," ","r","e","a","d">>
LIT_E3 == <<"e","3">>

\* "card not read" in alarm_msg.lower() or "e3" in alarm_msg.lower()
IsReadFailure(alarm_msg) ==
    \/ Contains(Lower(alarm_msg), LIT_CARD_NOT_READ)
    \/ Contains(Lower(alarm_msg), LIT_E3)

\* a variant that tests the two fragments one after the other
AlarmCallbacks_PerFragment(alarm_msg) ==
    <<on_error(<<"ALARM: ">> \o alarm_msg)>>
    \o (IF Contains(Lower(alarm_msg), LIT_CARD_NOT_READ)
        THEN <<on_card(<<"FAIL: ">> \o alarm_msg, FALSE)>> ELSE <<>>)
    \o (IF Contains(Lower(alarm_msg), LIT_E3)
        THEN <<on_card(<<"FAIL: ">> \o alarm_msg, FALSE)>> ELSE <<>>)

\* the callbacks scheduled for one alarm match
AlarmCallbacks(alarm_msg) ==
    <<on_error(<<"ALARM: ">> \o alarm_msg)>>
    \o (IF IsReadFailure(alarm_msg) THEN <<on_card(<<"FAIL: ">> \o alarm_msg, FALSE)>> ELSE <<>>)

RECURSIVE Flatten(_)
Flatten(ss) == IF ss = <<>> THEN <<>> ELSE Head(ss) \o Flatten(Tail(ss))

\* PRIORITY 1: the callbacks of the alarm pass over buffer s
AlarmPass(s) ==
    LET ms == AlarmMatches(s)
    IN  Flatten([k \in 1..Len(ms) |-> AlarmCallbacks(AlarmMessage(s, ms[k][1]))])
\* PRIORITY 2: the callbacks of the warning pass
WarningPass(s) ==
    LET ms == WarningMatches(s)
    IN  [k \in 1..Len(ms) |-> on_error(<<"Warning: ">> \o WarningCode(s, ms[k][1], ms[k][2]))]
\* PRIORITY 3: the callbacks of the failed-read pass
FailedPass(s) ==
    LET ms == FailedMatches(s)
    IN  [k \in 1..Len(ms) |-> on_card(<<"FAIL: Unreadable">>, FALSE)]

\* text_buffer = ALARM_PATTERN.sub('', text_buffer), and the two other removals
RemoveAlarms(s)   == Sub(s, AlarmMatches(s))
RemoveWarnings(s) == Sub(s, WarningMatches(s))
\* a variant that reports the failed reads and leaves them in the buffer
RemoveFailed_KeepsMatches(s) == s
\* text_buffer = FAILED_READ_PATTERN.sub('', text_buffer)
RemoveFailed(s)   == Sub(s, FailedMatches(s))

\* a variant that keeps the text after the first card match
AfterCards_FirstMatch(s) ==
    LET ms == CardMatches(s)
    IN  IF ms = <<>> THEN s ELSE SubSeq(s, ms[1][2], Len(s))
\* text_buffer[last_match.end():] when cards were parsed
AfterCards(s) ==
    LET ms == CardMatches(s)
    IN  IF ms = <<>> THEN s ELSE SubSeq(s, ms[Len(ms)][2], Len(s))

\* a variant that cuts a buffer of exactly BUFFER_LIMIT characters too
LimitBuffer_AtLimit(s) ==
    IF Len(s) >= BUFFER_LIMIT THEN SubSeq(s, Len(s) - BUFFER_KEEP + 1, Len(s)) ELSE s

\* if len(text_buffer) > 2000: text_buffer = text_buffer[-1000:]
LimitBuffer(s) ==
    IF Len(s) > BUFFER_LIMIT THEN SubSeq(s, Len(s) - BUFFER_KEEP + 1, Len(s)) ELSE s

\* a variant that schedules the callbacks of the warnings before those of
\* the alarms
Classify_WarningsFirst(b0) ==
    LET b1 == RemoveAlarms(b0)
        b2 == RemoveWarnings(b1)
        b3 == RemoveFailed(b2)
    IN  [callbacks    |-> WarningPass(b1) \o AlarmPass(b0) \o FailedPass(b2),
         after_alarms |-> b1,
         stripped     |-> b3,
         cards        |-> parse_cards_from_buffer(b3),
         trimmed      |-> AfterCards(b3)]

\* the classification of one read cycle, from the buffer b0 that holds the
\* decoded chunk: each pass works on the buffer the pass before it left
Classify(b0) ==
    LET b1 == RemoveAlarms(b0)
        b2 == RemoveWarnings(b1)
        b3 == RemoveFailed(b2)
    IN  [callbacks    |-> AlarmPass(b0) \o WarningPass(b1) \o FailedPass(b2),
         after_alarms |-> b1,
         stripped     |-> b3,
         cards        |-> parse_cards_from_buffer(b3),
         trimmed      |-> AfterCards(b3)]

(***************************************************************************)
(* HTTP dispatch: the outcome of requests.post is the status code of the   *)
(* response, or an exception: -1 for a timeout, -2 for a transport error   *)
(***************************************************************************)
Responses == {199, 200, 299, 300, 404, 500, -1, -2}
\* a variant that takes status 300 for a success too
send_card_http_Inclusive(resp) ==
    IF resp < 0 THEN FALSE ELSE 200 <= resp /\ resp <= 300

\* the value send_card_http returns when requests.post ends with resp
send_card_http(resp) ==
    IF resp < 0 THEN FALSE ELSE 200 <= resp /\ resp < 300


(***************************************************************************)
(* The device stream                                                       *)
(***************************************************************************)
\* what the shoe writes: tokens with their own surrounding spaces, a card
\* token that shares its leading space with the token before it, a card
\* token with a stray byte in it, an alarm with a warning written into the
\* middle of it, a warning
TOK_CARD_4S == <<" ","[","G","a","m","e","]","<","C","a","r","d",":","4","S",">"," ">>
TOK_CARD_KH_SHARED == <<"[","G","a","m","e","]","<","C","a","r","d",":","K","H",">"," ">>
TOK_CARD_10D == <<" ","[","g","a","m","e","]","<","c","a","r","d",":","1",NON_ASCII,"0","d",">"," ">>
TOK_FAILED == <<" ","[","M","a","n","u","a","l"," ","B","u","r","n"," ","C","a","r","d","s","]","<","G","a","m","e",">"," ">>
TOK_ALARM_E3 == <<" ","[","G","a","m","e","]","<","A","l","a","r","m",":","E","3"," ","C","a","r","d"," ","N","o","t"," ","R","e","a","d",">"," ">>
TOK_ALARM_WARNING == <<" ","[","G","a","m","e","A","l","a","r","m","]","<","A","l","a","r","m",":","<","W","0","x","1","F",">","J","a","m",">"," ">>
TOK_WARNING == <<"<","W","0","x","1","F",">">>

Pieces == <<TOK_CARD_4S, TOK_CARD_KH_SHARED, TOK_CARD_10D, TOK_FAILED, TOK_ALARM_E3,
            TOK_ALARM_WARNING, TOK_WARNING>>

\* a stream is made of at most MaxPieces pieces and MaxStreamLen bytes
MaxPieces == 2
MaxStreamLen == 60
\* the environment makes at most MaxFaults open attempts fail or reads raise
MaxFaults == 2
\* Spec: the device delivers Burst bytes at once, or all it has
Burst == 9
\* the user saves at most MaxEdits configurations
MaxEdits == 1
\* the sessions that can be started
MaxStarts == 2

RECURSIVE StreamsOf(_)
StreamsOf(k) ==
    IF k = 0 THEN {<<>>}
    ELSE LET shorter == StreamsOf(k - 1)
         IN  shorter \cup {s \o Pieces[i] : s \in shorter, i \in DOMAIN Pieces}
Streams == {s \in StreamsOf(MaxPieces) : Len(s) <= MaxStreamLen}

(***************************************************************************)
(* Configuration                                                           *)
(***************************************************************************)
Config(ip, port, url) == [ip |-> ip, port |-> port, url |-> url]
\* the configuration of a fresh install
DefaultConfig == Config("192.168.1.140", 9000, "api/holdem/beetek/card")
\* what the three text inputs can hold, stripped
TextInputs ==
    [ip : {"", "10.0.0.7"}, port : {"", "abc", "0", "9001", "65536"}, url : {"", "sendCard"}]
\* int(port_text); "abc" and "" raise ValueError
IsNumeric(text) == text \in {"0", "9001", "65536"}
IntOf(text) == IF text = "0" THEN 0 ELSE IF text = "9001" THEN 9001 ELSE 65536
\* a variant that only asks for a positive port
ValidInputs_NoUpperBound(t) ==
    /\ t.ip # "" /\ t.port # "" /\ t.url # ""
    /\ IsNumeric(t.port)
    /\ 1 <= IntOf(t.port)
\* the validation of toggle_monitoring and save_configuration
ValidInputs(t) ==
    /\ t.ip # "" /\ t.port # "" /\ t.url # ""
    /\ IsNumeric(t.port)
    /\ 1 <= IntOf(t.port) /\ IntOf(t.port) <= 65535

(***************************************************************************)
(* State                                                                   *)
(***************************************************************************)
VARIABLES
    wire,         \* the bytes the device has still to deliver
    text_buffer,  \* run(): text_buffer
    pending,      \* run(): the cards of `for card in cards` not yet dispatched
    posts,        \* the cards POSTed by send_card_http, in order
    scheduled,    \* the callbacks given to Clock.schedule_once, in order
    pc,           \* where the worker thread is in run()
    ser,          \* self.ser: "none" (None), "open", "closed" (is_open false)
    stop_event,   \* self._stop_event
    stop_pc,      \* where the caller of stop() is: "idle", "closing", "returned"
    sleep_left,   \* ticks left of the worker's current time.sleep
    faults,       \* open failures and read errors so far
    app_config,   \* ShoeMonitorApp.app_config, the object that is SerialMonitor.config
    save_pc,      \* where save_configuration is: "idle", "ip_set", "port_set"
    edits,        \* configurations saved so far
    delivered,    \* the number of scheduled callbacks the Clock has run
    status,       \* the text the status indicator shows
    history,      \* ShoeMonitorApp.history: the symbols of the card events
    is_monitoring, \* ShoeMonitorApp.is_monitoring
    disabled,     \* the three text inputs and the Save button are disabled
    starts,       \* SerialMonitor threads started so far
    extra,        \* threads alive besides the one the worker variables follow
    obs           \* observations of the run, read by the properties only

vars == <<wire, text_buffer, pending, posts, scheduled, pc, ser, stop_event,
          stop_pc, sleep_left, faults, app_config, save_pc, edits, delivered,
          status, history, is_monitoring, disabled, starts, extra, obs>>
\* the state of the UI thread
ui_vars == <<app_config, save_pc, edits, delivered, status, history,
             is_monitoring, disabled, starts, extra>>
\* the state of the sessions: the flag, the inputs, the threads
session_vars == <<is_monitoring, disabled, starts, extra>>

Sleeping == {"retry_open", "retry_read", "exc_sleep", "poll_sleep"}

\* obs.cycle, in the state a read cycle's classification leaves: the values
\* text_buffer had in it (after line 315, after line 334, after line 361)
\* the number of callbacks scheduled before it (mark) and the number of
\* characters read on this connection before it.  NoCycle in other states.
NoCycle == [input |-> <<>>, after_alarms |-> <<>>, stripped |-> <<>>, mark |-> -1, before |-> 0]
NoRecovery == [mark |-> -1, len |-> -1, waited |-> 0]
\* obs.post, in the state a dispatch leaves: the card, the response, the
\* result of send_card_http and the configuration fields the dispatch used
NoPost == [card |-> <<>>, resp |-> 0, ok |-> FALSE, config |-> DefaultConfig]
\* obs.press, in the state a press of Start leaves: what the inputs held
NoPress == [made |-> FALSE, inputs |-> [ip |-> "", port |-> "", url |-> ""]]
Obs0 == [cycle |-> NoCycle, during |-> NoCycle, cycle_end |-> FALSE, precap |-> <<>>,
         press |-> NoPress,
         heard |-> <<>>,
         post |-> NoPost, classified |-> <<>>,
         open_drop |-> -1, stop_at |-> "running", since_stop |-> 0,
         fail_mark |-> -1, waited |-> 0, recovery |-> NoRecovery]

\* The observations after a step.  cycle: see NoCycle.  cycle_end: the step
\* ended a read cycle, and precap is the buffer its size limit was applied to.
Observation(cycle, cycle_end, precap, post) ==
    LET ticked   == sleep_left' < sleep_left
        failed   == pc = "open" /\ pc' = "retry_open"
        opened   == pc = "open" /\ pc' = "read"
    IN         [cycle         |-> cycle,
                press         |-> NoPress,
                \* the cycle record, kept until the last card of the cycle is
                \* dispatched
                during        |-> IF cycle.mark # -1 THEN cycle
                                  ELSE IF pc = "dispatch" THEN obs.during
                                  ELSE NoCycle,
                cycle_end     |-> cycle_end,
                precap        |-> precap,
                post          |-> post,
                \* the cards the read cycles have classified so far
                classified    |-> IF cycle.mark # -1 THEN obs.classified \o pending'
                                  ELSE obs.classified,
                \* the text read on this connection so far
                heard         |-> IF opened THEN <<>>
                                  ELSE obs.heard
                                       \o Decode(SubSeq(wire, 1, Len(wire) - Len(wire'))),
                \* in the state a successful open leaves: the length the buffer
                \* had before the open; -1 in other states
                open_drop     |-> IF opened THEN Len(text_buffer) ELSE -1,
                \* where the worker was when the stop request arrived
                stop_at       |-> IF ~stop_event /\ stop_event' THEN pc ELSE obs.stop_at,
                \* ticks since the stop request, counted up to POLL_SLEEP + 1
                since_stop    |-> IF ticked /\ stop_event /\ obs.since_stop <= POLL_SLEEP
                                  THEN obs.since_stop + 1 ELSE obs.since_stop,
                \* when the last open attempt failed: Len(scheduled) before it
                fail_mark     |-> IF failed THEN Len(scheduled)
                                  ELSE IF opened THEN -1 ELSE obs.fail_mark,
                \* ticks since the last failed open, counted up to RETRY_DELAY and
                \* until the next successful open
                waited        |-> IF failed THEN 0
                                  ELSE IF ticked /\ obs.fail_mark # -1 /\ obs.waited < RETRY_DELAY
                                       THEN obs.waited + 1
                                  ELSE obs.waited,
                \* a successful open that followed a failed one
                recovery      |-> IF opened /\ obs.fail_mark # -1
                                  THEN [mark |-> obs.fail_mark, len |-> Len(scheduled'),
                                        waited |-> obs.waited]
                                  ELSE IF opened \/ failed THEN NoRecovery
                                  ELSE obs.recovery]
Observed(cycle, cycle_end, precap, post) == obs' = Observation(cycle, cycle_end, precap, post)
Unobserved == Observed(NoCycle, FALSE, <<>>, NoPost)

\* the thread has been started: it is at the top of run()
Init ==
    /\ wire \in {TOK_CARD_4S, TOK_WARNING \o TOK_CARD_10D}
    /\ text_buffer = <<>>
    /\ pending = <<>>
    /\ posts = <<>>
    /\ scheduled = <<>>
    /\ pc = "loop"
    /\ ser = "none"
    /\ stop_event = FALSE
    /\ stop_pc = "idle"
    /\ sleep_left = 0
    /\ faults = 0
    /\ app_config = DefaultConfig
    /\ save_pc = "idle"
    /\ edits = 0
    /\ delivered = 0
    /\ status = "Disconnected"
    /\ history = <<>>
    /\ is_monitoring = TRUE
    /\ disabled = TRUE
    /\ starts = 1
    /\ extra = 0
    /\ obs = Obs0

\* the port is open and the worker is about to read: every stream
InitClassify ==
    /\ wire \in Streams
    /\ text_buffer = <<>>
    /\ pending = <<>>
    /\ posts = <<>>
    /\ scheduled = <<on_connected>>
    /\ pc = "read"
    /\ ser = "open"
    /\ stop_event = FALSE
    /\ stop_pc = "idle"
    /\ sleep_left = 0
    /\ faults = 0
    /\ app_config = DefaultConfig
    /\ save_pc = "idle"
    /\ edits = 0
    /\ delivered = 0
    /\ status = "Disconnected"
    /\ history = <<>>
    /\ is_monitoring = TRUE
    /\ disabled = TRUE
    /\ starts = 1
    /\ extra = 0
    /\ obs = Obs0

(***************************************************************************)
(* stop(), called from the UI thread                                       *)
(***************************************************************************)
\* self._stop_event.set()
StopSet ==
    /\ is_monitoring
    /\ stop_pc = "idle"
    /\ stop_event' = TRUE
    /\ stop_pc' = "closing"
    /\ is_monitoring' = FALSE
    /\ UNCHANGED <<wire, text_buffer, pending, posts, scheduled, pc, ser, sleep_left, faults>>
    /\ UNCHANGED <<app_config, save_pc, edits, delivered, status, history, disabled, starts, extra>>
    /\ Unobserved

\* if self.ser and self.ser.is_open: self.ser.close(); back in
\* toggle_monitoring the inputs are enabled again and the status is "Stopped"
StopClose ==
    /\ stop_pc = "closing"
    /\ ser' = IF ser = "open" THEN "closed" ELSE ser
    /\ stop_pc' = "returned"
    /\ status' = "Stopped"
    /\ disabled' = FALSE
    /\ UNCHANGED <<wire, text_buffer, pending, posts, scheduled, pc, stop_event, sleep_left, faults>>
    /\ UNCHANGED <<app_config, save_pc, edits, delivered, history, is_monitoring, starts, extra>>
    /\ Unobserved

(***************************************************************************)
(* run(), the worker thread                                                *)
(***************************************************************************)
\* while not self._stop_event.is_set():
LoopTop ==
    /\ pc = "loop"
    /\ pc' = IF stop_event THEN "cleanup" ELSE "check_ser"
    /\ UNCHANGED <<wire, text_buffer, pending, posts, scheduled, ser, stop_event, stop_pc,
                   sleep_left, faults>>
    /\ UNCHANGED ui_vars
    /\ Unobserved

\* if not self.ser or not self.ser.is_open:
CheckSer ==
    /\ pc = "check_ser"
    /\ pc' = IF ser # "open" THEN "open" ELSE "read"
    /\ UNCHANGED <<wire, text_buffer, pending, posts, scheduled, ser, stop_event, stop_pc,
                   sleep_left, faults>>
    /\ UNCHANGED ui_vars
    /\ Unobserved

\* a variant that keeps the buffer of the connection before
OpenOk_KeepsBuffer ==
    /\ pc = "open"
    /\ ser' = "open"
    /\ scheduled' = Append(scheduled, on_connected)
    /\ pc' = "read"
    /\ UNCHANGED <<wire, text_buffer, pending, posts, stop_event, stop_pc, sleep_left, faults>>
    /\ UNCHANGED ui_vars
    /\ Unobserved

\* serial.Serial(...) succeeds
OpenOk ==
    /\ pc = "open"
    /\ ser' = "open"
    /\ scheduled' = Append(scheduled, on_connected)
    /\ text_buffer' = <<>>
    /\ pc' = "read"
    /\ UNCHANGED <<wire, pending, posts, stop_event, stop_pc, sleep_left, faults>>
    /\ UNCHANGED ui_vars
    /\ Unobserved

(***************************************************************************)
(* The UI thread: save_configuration and the callbacks the Clock runs      *)
(***************************************************************************)
\* the UI thread runs one handler at a time
UiIdle == stop_pc # "closing" /\ save_pc = "idle"
\* the Save button is enabled: no session is being monitored
SaveEnabled == ~disabled

\* save_configuration: self.app_config.ip = ip, when the inputs are valid
SaveIp ==
    /\ UiIdle /\ SaveEnabled
    /\ edits < MaxEdits
    /\ \E t \in TextInputs :
           /\ ValidInputs(t)
           /\ app_config' = [app_config EXCEPT !.ip = t.ip]
    /\ save_pc' = "ip_set"
    /\ UNCHANGED <<wire, text_buffer, pending, posts, scheduled, pc, ser, stop_event,
                   stop_pc, sleep_left, faults, edits, delivered, status, history>>
    /\ UNCHANGED session_vars
    /\ Unobserved

\* self.app_config.port = port
SavePort ==
    /\ save_pc = "ip_set"
    /\ \E t \in TextInputs :
           /\ ValidInputs(t) /\ t.ip = app_config.ip
           /\ app_config' = [app_config EXCEPT !.port = IntOf(t.port)]
    /\ save_pc' = "port_set"
    /\ UNCHANGED <<wire, text_buffer, pending, posts, scheduled, pc, ser, stop_event,
                   stop_pc, sleep_left, faults, edits, delivered, status, history>>
    /\ UNCHANGED session_vars
    /\ Unobserved

\* self.app_config.url = url; save_config(self.app_config)
SaveUrl ==
    /\ save_pc = "port_set"
    /\ \E t \in TextInputs :
           /\ ValidInputs(t) /\ t.ip = app_config.ip /\ IntOf(t.port) = app_config.port
           /\ app_config' = [app_config EXCEPT !.url = t.url]
    /\ save_pc' = "idle"
    /\ edits' = edits + 1
    /\ UNCHANGED <<wire, text_buffer, pending, posts, scheduled, pc, ser, stop_event,
                   stop_pc, sleep_left, faults, delivered, status, history>>
    /\ UNCHANGED session_vars
    /\ Unobserved

\* on_card_received: the symbol of a card event
on_card_received(card, success) ==
    IF card # <<>> /\ card[1] \in {"FAIL: ", "FAIL: Unreadable"} THEN "[FAIL]"
    ELSE IF card # <<>> /\ success THEN "[OK]"
    ELSE "[X]"

\* the Clock runs the oldest callback that is due: on_connected,
\* on_disconnected, on_error or on_card_received
ClockCallback ==
    /\ UiIdle
    /\ delivered < Len(scheduled)
    /\ delivered' = delivered + 1
    /\ LET n == scheduled[delivered + 1]
       IN  /\ status' = IF n.kind = "connected" THEN "Connected"
                        ELSE IF n.kind = "disconnected" THEN "Disconnected (retrying...)"
                        ELSE IF n.kind = "error" THEN "Error"
                        ELSE status
           /\ history' = IF n.kind = "card"
                         THEN Append(history, on_card_received(n.text, n.success))
                         ELSE history
    /\ UNCHANGED <<wire, text_buffer, pending, posts, scheduled, pc, ser, stop_event,
                   stop_pc, sleep_left, faults, app_config, save_pc, edits>>
    /\ UNCHANGED session_vars
    /\ Unobserved

\* the message of a failed open: three forms for a SerialException, str(e)
\* for any other exception
OpenErrors == {"Permission denied", "No such file", "other serial", "unexpected"}
\* a variant that leaves the device path out of the message
OpenErrorMessage_NoPath(e) ==
    IF e = "unexpected" THEN <<"str(e)">>
    ELSE IF e = "Permission denied"
         THEN <<"Permission denied. Run: sudo usermod -a -G dialout $USER">>
    ELSE IF e = "No such file" THEN <<"Device not found: ">>
    ELSE <<"Serial error: ", "str(e)">>
OpenErrorMessage(e) ==
    IF e = "unexpected" THEN <<"str(e)">>
    ELSE IF e = "Permission denied"
         THEN <<"Permission denied. Run: sudo usermod -a -G dialout $USER">>
    ELSE IF e = "No such file" THEN <<"Device not found: ", "/dev/ttyUSB0">>
    ELSE <<"Serial error: ", "str(e)">>

\* a variant where a failed open leaves the loop
AfterOpenFail_Ends == "cleanup"

\* time.sleep(RETRY_DELAY); continue: the worker sleeps inside the loop
AfterOpenFail == "retry_open"

\* a variant that retries at once
OpenFail_NoDelay ==
    /\ pc = "open"
    /\ faults < MaxFaults
    /\ \E e \in OpenErrors :
           scheduled' = Append(scheduled, on_error(OpenErrorMessage(e)))
    /\ faults' = faults + 1
    /\ pc' = AfterOpenFail
    /\ sleep_left' = 0
    /\ UNCHANGED <<wire, text_buffer, pending, posts, ser, stop_event, stop_pc>>
    /\ UNCHANGED ui_vars
    /\ Unobserved

\* serial.Serial(...) raises
OpenFail ==
    /\ pc = "open"
    /\ faults < MaxFaults
    /\ \E e \in OpenErrors :
           scheduled' = Append(scheduled, on_error(OpenErrorMessage(e)))
    /\ faults' = faults + 1
    /\ pc' = AfterOpenFail
    /\ sleep_left' = RETRY_DELAY
    /\ UNCHANGED <<wire, text_buffer, pending, posts, ser, stop_event, stop_pc>>
    /\ UNCHANGED ui_vars
    /\ Unobserved

\* self.ser.in_waiting is 0: nothing to read
ReadIdle ==
    /\ pc = "read"
    /\ ser = "open"
    /\ pc' = "poll_sleep"
    /\ sleep_left' = POLL_SLEEP
    /\ UNCHANGED <<wire, text_buffer, pending, posts, scheduled, ser, stop_event, stop_pc, faults>>
    /\ UNCHANGED ui_vars
    /\ Unobserved

\* a read cycle: the next n bytes are read, decoded and classified
Cycle(n) ==
    \E b0 \in {text_buffer \o Decode(SubSeq(wire, 1, n))} :
    \E c \in {Classify(b0)} :
    \E seen \in {[input |-> b0, after_alarms |-> c.after_alarms, stripped |-> c.stripped,
                  mark |-> Len(scheduled), before |-> Len(obs.heard)]} :
        /\ wire' = SubSeq(wire, n + 1, Len(wire))
        /\ scheduled' = scheduled \o c.callbacks
        /\ pending' = c.cards
        /\ UNCHANGED <<posts, ser, stop_event, stop_pc, faults>>
        /\ UNCHANGED ui_vars
        /\ IF c.cards # <<>>
           THEN /\ text_buffer' = c.trimmed
                /\ pc' = "dispatch"
                /\ UNCHANGED sleep_left
                /\ Observed(seen, FALSE, <<>>, NoPost)
           ELSE /\ text_buffer' = LimitBuffer(c.stripped)
                /\ pc' = "poll_sleep"
                /\ sleep_left' = POLL_SLEEP
                /\ Observed(seen, TRUE, c.stripped, NoPost)

\* the device has delivered any number of its bytes
ReadCycle ==
    /\ pc = "read"
    /\ ser = "open"
    /\ \E n \in 1..Len(wire) : Cycle(n)

\* the device has delivered Burst bytes, or all of them
ReadBurst ==
    /\ pc = "read"
    /\ ser = "open"
    /\ \E n \in {k \in 1..Len(wire) : k = Burst \/ k = Len(wire)} : Cycle(n)

\* a variant that retries a card whose POST failed
PostAttempts_RetryOnFailure(card, success) ==
    IF success THEN <<card>> ELSE <<card, card>>

\* the requests.post calls of one iteration of `for card in cards`: the one
\* call of send_card_http, whatever it returns
PostAttempts(card, success) == <<card>>

\* a variant that hands the result of send_card_http to the callback
CardCallback_ReportsOutcome(card, success) == on_card(card, success)

\* lambda dt, c=card: self.on_card(c, True): success is not read
CardCallback(card, success) == on_card(card, TRUE)

\* one iteration of `for card in cards`: send_card_http with the fields
\* self.config holds now, then schedule on_card(card, True); after the last
\* card the buffer is limited and the iteration sleeps
Dispatch ==
    /\ pc = "dispatch"
    /\ \E resp \in Responses : \E success \in {send_card_http(resp)} :
         \E post \in {[card |-> Head(pending), resp |-> resp, ok |-> success,
                        config |-> app_config]} :
           /\ posts' = posts \o PostAttempts(Head(pending), success)
           /\ scheduled' = Append(scheduled, CardCallback(Head(pending), success))
           /\ pending' = Tail(pending)
           /\ UNCHANGED <<wire, ser, stop_event, stop_pc, faults>>
           /\ UNCHANGED ui_vars
           /\ IF Tail(pending) = <<>>
              THEN /\ text_buffer' = LimitBuffer(text_buffer)
                   /\ pc' = "poll_sleep"
                   /\ sleep_left' = POLL_SLEEP
                   /\ Observed(NoCycle, TRUE, text_buffer, post)
              ELSE /\ UNCHANGED <<text_buffer, pc, sleep_left>>
                   /\ Observed(NoCycle, FALSE, <<>>, post)

\* a read on a handle that stop() has closed always raises; on an open
\* handle a raise is a fault of the device
ReadRaises ==
    /\ pc = "read"
    /\ \/ ser = "closed" /\ UNCHANGED faults
       \/ ser = "open" /\ faults < MaxFaults /\ faults' = faults + 1

\* except serial.SerialException
ReadSerialError ==
    /\ ReadRaises
    /\ scheduled' = Append(scheduled, on_disconnected)
    /\ ser' = "none"
    /\ pc' = "retry_read"
    /\ sleep_left' = RETRY_DELAY
    /\ UNCHANGED <<wire, text_buffer, pending, posts, stop_event, stop_pc>>
    /\ UNCHANGED ui_vars
    /\ Unobserved

\* except Exception (OSError of the ioctl on an unplugged device, TypeError
\* of the ioctl on a closed handle)
ReadOtherError ==
    /\ ReadRaises
    /\ pc' = "exc_sleep"
    /\ sleep_left' = EXC_SLEEP
    /\ UNCHANGED <<wire, text_buffer, pending, posts, scheduled, ser, stop_event, stop_pc>>
    /\ UNCHANGED ui_vars
    /\ Unobserved

\* time passes while the worker sleeps
Tick ==
    /\ pc \in Sleeping
    /\ sleep_left > 0
    /\ sleep_left' = sleep_left - 1
    /\ UNCHANGED <<wire, text_buffer, pending, posts, scheduled, pc, ser, stop_event, stop_pc, faults>>
    /\ UNCHANGED ui_vars
    /\ Unobserved

\* a variant that goes on with the loop body, past the test of the flag
Wake_PastLoopTest ==
    /\ pc \in Sleeping
    /\ sleep_left = 0
    /\ pc' = "check_ser"
    /\ UNCHANGED <<wire, text_buffer, pending, posts, scheduled, ser, stop_event, stop_pc,
                   sleep_left, faults>>
    /\ UNCHANGED ui_vars
    /\ Unobserved

\* time.sleep returns: `continue`, or the end of the loop body
Wake ==
    /\ pc \in Sleeping
    /\ sleep_left = 0
    /\ pc' = "loop"
    /\ UNCHANGED <<wire, text_buffer, pending, posts, scheduled, ser, stop_event, stop_pc,
                   sleep_left, faults>>
    /\ UNCHANGED ui_vars
    /\ Unobserved

\* a variant that ends the thread without closing the handle
Cleanup_NoClose ==
    /\ pc = "cleanup"
    /\ pc' = "done"
    /\ UNCHANGED <<wire, text_buffer, pending, posts, scheduled, ser, stop_event, stop_pc,
                   sleep_left, faults>>
    /\ UNCHANGED ui_vars
    /\ Unobserved

\* Cleanup: if self.ser: self.ser.close()
Cleanup ==
    /\ pc = "cleanup"
    /\ ser' = IF ser = "none" THEN "none" ELSE "closed"
    /\ pc' = "done"
    /\ UNCHANGED <<wire, text_buffer, pending, posts, scheduled, stop_event, stop_pc,
                   sleep_left, faults>>
    /\ UNCHANGED ui_vars
    /\ Unobserved

\* a step of the worker thread
WorkerStep ==
    \/ LoopTop \/ CheckSer \/ OpenOk \/ OpenFail
    \/ ReadIdle \/ ReadBurst \/ Dispatch
    \/ ReadSerialError \/ ReadOtherError
    \/ Tick \/ Wake \/ Cleanup

\* the worker from its start, with stop(), failing opens and failing reads
Next ==
    \/ StopSet \/ StopClose
    \/ SaveIp \/ SavePort \/ SaveUrl
    \/ LoopTop \/ CheckSer \/ OpenOk \/ OpenFail
    \/ ReadIdle \/ ReadBurst \/ Dispatch
    \/ ReadSerialError \/ ReadOtherError
    \/ Tick \/ Wake \/ Cleanup

Spec == Init /\ [][Next]_vars

\* the read loop of a connected worker over every stream
NextClassify ==
    \/ ReadCycle \/ Dispatch \/ Tick \/ Wake \/ LoopTop \/ CheckSer

SpecClassify == InitClassify /\ [][NextClassify]_vars

(***************************************************************************)
(* Sessions: toggle_monitoring starts and stops workers                    *)
(***************************************************************************)
\* the application has been built: no session yet
InitIdle ==
    /\ wire = <<>>
    /\ text_buffer = <<>>
    /\ pending = <<>>
    /\ posts = <<>>
    /\ scheduled = <<>>
    /\ pc = "none"
    /\ ser = "none"
    /\ stop_event = FALSE
    /\ stop_pc = "idle"
    /\ sleep_left = 0
    /\ faults = 0
    /\ app_config = DefaultConfig
    /\ save_pc = "idle"
    /\ edits = 0
    /\ delivered = 0
    /\ status = "Disconnected"
    /\ history = <<>>
    /\ is_monitoring = FALSE
    /\ disabled = FALSE
    /\ starts = 0
    /\ extra = 0
    /\ obs = Obs0

\* what the inputs hold when Start is pressed: at most one of them is wrong
StartInputs ==
    {t \in TextInputs :
        Cardinality({f \in {"ip", "port", "url"} : t[f] # "" /\ t[f] # "0"
                                                   /\ t[f] # "abc" /\ t[f] # "65536"}) >= 2}

\* Start is pressed and the inputs do not pass the validation: return
StartRejected ==
    /\ UiIdle
    /\ ~is_monitoring
    /\ UNCHANGED <<wire, text_buffer, pending, posts, scheduled, pc, ser, stop_event,
                   stop_pc, sleep_left, faults>>
    /\ UNCHANGED ui_vars
    /\ \E t \in StartInputs :
           /\ ~ValidInputs(t)
           /\ obs' = [Observation(NoCycle, FALSE, <<>>, NoPost)
                         EXCEPT !.press = [made |-> TRUE, inputs |-> t]]

\* Start is pressed with valid inputs: the configuration is updated, the
\* inputs are disabled and a new SerialMonitor is created and started.  The
\* worker variables follow the new thread when no earlier thread is running
\* any more; when one is, they go on following it and the new thread counts
\* as one more thread alive.
StartMonitoring ==
    /\ UiIdle
    /\ ~is_monitoring
    /\ starts < MaxStarts
    /\ extra = 0
    /\ \E t \in StartInputs :
           /\ ValidInputs(t)
           /\ app_config' = Config(t.ip, IntOf(t.port), t.url)
           /\ obs' = [Obs0 EXCEPT !.press = [made |-> TRUE, inputs |-> t],
                                  !.classified = obs.classified]
    /\ is_monitoring' = TRUE
    /\ disabled' = TRUE
    /\ starts' = starts + 1
    /\ IF pc \in {"none", "done"}
       THEN /\ pc' = "loop"
            /\ ser' = "none"
            /\ stop_event' = FALSE
            /\ stop_pc' = "idle"
            /\ text_buffer' = <<>>
            /\ sleep_left' = 0
            /\ UNCHANGED extra
       ELSE /\ extra' = extra + 1
            /\ UNCHANGED <<pc, ser, stop_event, stop_pc, text_buffer, sleep_left>>
    /\ UNCHANGED <<wire, pending, posts, scheduled, faults>>
    /\ UNCHANGED <<save_pc, edits, delivered, status, history>>

\* the device is plugged in and silent in these sessions: it opens, and has
\* nothing to read
NextSessions ==
    \/ StartRejected \/ StartMonitoring
    \/ StopSet \/ StopClose
    \/ LoopTop \/ CheckSer \/ OpenOk
    \/ ReadIdle
    \/ Tick \/ Wake \/ Cleanup

SpecSessions == InitIdle /\ [][NextSessions]_vars

(***************************************************************************)
(* The worker and stop(), every step of the worker taken in time           *)
(***************************************************************************)
NextStop == StopSet \/ StopClose \/ WorkerStep

\* the stop request may come at any step of the worker, or never
SpecStop == Init /\ [][NextStop]_vars /\ WF_vars(WorkerStep)

(***************************************************************************)
(* A session that is stopped while the Clock still has callbacks to run    *)
(***************************************************************************)
NextHandover ==
    \/ StopSet \/ StopClose
    \/ LoopTop \/ CheckSer \/ OpenOk \/ OpenFail
    \/ ReadIdle \/ ReadBurst \/ Dispatch
    \/ ReadSerialError
    \/ Tick \/ Wake \/ Cleanup
    \/ ClockCallback

SpecHandover == Init /\ [][NextHandover]_vars

(***************************************************************************)
(* The worker alone, never asked to stop, every step of it taken in time   *)
(***************************************************************************)
NextRetry ==
    \/ LoopTop \/ CheckSer \/ OpenOk \/ OpenFail
    \/ ReadIdle \/ ReadBurst \/ Dispatch
    \/ ReadSerialError \/ ReadOtherError
    \/ Tick \/ Wake

\* the device fails at most MaxFaults times and is openable from then on
SpecRetry == Init /\ [][NextRetry]_vars /\ WF_vars(NextRetry)

(***************************************************************************)
(* The worker and the callbacks the Clock runs on the UI thread            *)
(***************************************************************************)
\* streams with tokens of the four classes, written so that the order of
\* the text is not the order of the classes
ObserverStreams ==
    {TOK_CARD_4S \o TOK_FAILED \o TOK_WARNING \o TOK_ALARM_E3,
     TOK_CARD_4S \o TOK_CARD_KH_SHARED \o TOK_FAILED \o TOK_ALARM_WARNING \o TOK_FAILED,
     TOK_WARNING \o TOK_CARD_10D}

InitObserver ==
    /\ wire \in ObserverStreams
    /\ text_buffer = <<>>
    /\ pending = <<>>
    /\ posts = <<>>
    /\ scheduled = <<>>
    /\ pc = "loop"
    /\ ser = "none"
    /\ stop_event = FALSE
    /\ stop_pc = "idle"
    /\ sleep_left = 0
    /\ faults = 0
    /\ app_config = DefaultConfig
    /\ save_pc = "idle"
    /\ edits = 0
    /\ delivered = 0
    /\ status = "Disconnected"
    /\ history = <<>>
    /\ is_monitoring = TRUE
    /\ disabled = TRUE
    /\ starts = 1
    /\ extra = 0
    /\ obs = Obs0

NextObserver ==
    \/ LoopTop \/ CheckSer \/ OpenOk \/ OpenFail
    \/ ReadBurst \/ Dispatch
    \/ ReadSerialError
    \/ Tick \/ Wake
    \/ ClockCallback

SpecObserver == InitObserver /\ [][NextObserver]_vars

(***************************************************************************)
(* The normalizer alone: parse_cards_from_buffer over one card token with  *)
(* every rank and suit the pattern accepts                                 *)
(***************************************************************************)
RankTexts ==
    {<<c>> : c \in {"2", "3", "4", "5", "6", "7", "8", "9", "T", "J", "Q", "K", "A",
                    "t", "j", "q", "k", "a"}} \cup {<<"1", "0">>}
SuitTexts == {<<c>> : c \in {"C", "D", "H", "S", "c", "d", "h", "s"}}
\* the card token of a rank and a suit
CardToken(tag, rank, suit) == LIT_OPEN \o tag \o LIT_CARD \o rank \o suit \o LIT_CLOSE

\* wire keeps the token the device wrote, text_buffer is the text to parse
InitNormalize ==
    /\ wire \in {CardToken(tag, rank, suit) : tag \in {LIT_GAME, LIT_MANUAL},
                                              rank \in RankTexts, suit \in SuitTexts}
    /\ text_buffer = wire
    /\ pending = <<>>
    /\ posts = <<>>
    /\ scheduled = <<>>
    /\ pc = "parse"
    /\ ser = "open"
    /\ stop_event = FALSE
    /\ stop_pc = "idle"
    /\ sleep_left = 0
    /\ faults = 0
    /\ app_config = DefaultConfig
    /\ save_pc = "idle"
    /\ edits = 0
    /\ delivered = 0
    /\ status = "Disconnected"
    /\ history = <<>>
    /\ is_monitoring = TRUE
    /\ disabled = TRUE
    /\ starts = 1
    /\ extra = 0
    /\ obs = Obs0

\* cards = parse_cards_from_buffer(text_buffer)
ParseCards ==
    /\ pc \in {"parse", "placed"}
    /\ pending' = parse_cards_from_buffer(text_buffer)
    /\ pc' = IF pc = "parse" THEN "parsed" ELSE "reparsed"
    /\ UNCHANGED <<wire, text_buffer, posts, scheduled, ser, stop_event, stop_pc,
                   sleep_left, faults>>
    /\ UNCHANGED ui_vars
    /\ obs' = obs

\* the code of the card is kept and written back into a card token, where
\* the rank stands before the suit
PlaceCode ==
    /\ pc = "parsed"
    /\ pending # <<>>
    /\ posts' = pending
    /\ text_buffer' = CardToken(LIT_GAME, Tail(pending[1]), <<Head(pending[1])>>)
    /\ pending' = <<>>
    /\ pc' = "placed"
    /\ UNCHANGED <<wire, scheduled, ser, stop_event, stop_pc, sleep_left, faults>>
    /\ UNCHANGED ui_vars
    /\ obs' = obs

NextNormalize == ParseCards \/ PlaceCode

SpecNormalize == InitNormalize /\ [][NextNormalize]_vars

(***************************************************************************)
(* Long streams, for the size limit of the buffer                          *)
(***************************************************************************)
\* text no pattern matches any part of: it has no space and no '<'
JUNK == <<"#", "a", "1", ":", "]", "x", "7">>
Junk(n) == [k \in 1..n |-> JUNK[(k % Len(JUNK)) + 1]]
\* SpecCap: the device delivers a multiple of Block bytes, or all it has
Block == 500

CapStreams ==
    {Junk(a) \o mid \o Junk(b) : a \in {0, 700},
                                 mid \in {<<>>, TOK_CARD_4S, TOK_WARNING},
                                 b \in {1300, 2000, 2001, 2500}}

InitCap ==
    /\ wire \in CapStreams
    /\ text_buffer = <<>>
    /\ pending = <<>>
    /\ posts = <<>>
    /\ scheduled = <<on_connected>>
    /\ pc = "read"
    /\ ser = "open"
    /\ stop_event = FALSE
    /\ stop_pc = "idle"
    /\ sleep_left = 0
    /\ faults = 0
    /\ app_config = DefaultConfig
    /\ save_pc = "idle"
    /\ edits = 0
    /\ delivered = 0
    /\ status = "Disconnected"
    /\ history = <<>>
    /\ is_monitoring = TRUE
    /\ disabled = TRUE
    /\ starts = 1
    /\ extra = 0
    /\ obs = Obs0

ReadBlock ==
    /\ pc = "read"
    /\ ser = "open"
    /\ \E n \in {k \in 1..Len(wire) : k % Block = 0 \/ k = Len(wire)} : Cycle(n)

NextCap ==
    \/ ReadBlock \/ Dispatch \/ Tick \/ Wake \/ LoopTop \/ CheckSer

SpecCap == InitCap /\ [][NextCap]_vars

(***************************************************************************)
(* Properties of the classification                                        *)
(***************************************************************************)
\* the state is the one a read cycle's classification has just left
InCycle == obs.cycle.mark # -1
\* the callbacks that classification scheduled
NewCallbacks == SubSeq(scheduled, obs.cycle.mark + 1, Len(scheduled))
Count(seq, Test(_)) == Cardinality({k \in 1..Len(seq) : Test(seq[k])})
Codes(cards) == {cards[k] : k \in 1..Len(cards)}

\* every place of text s where a well-formed card token stands
CardTokensOf(s) == {i \in StartsWith(s, " ") : CARD_PATTERN(s, i) # 0}
\* s is two or more card tokens written one after another, one space between
\* each two (the space that ends a token is the space that begins the next)
IsCardRun(s) ==
    /\ Cardinality(CardTokensOf(s)) >= 2
    /\ 1 \in CardTokensOf(s)
    /\ \A i \in CardTokensOf(s) : \/ CARD_PATTERN(s, i) = Len(s) + 1
                                  \/ CARD_PATTERN(s, i) - 1 \in CardTokensOf(s)
\* the card codes of the tokens of a run, from the token at i on
RECURSIVE RunCodes(_, _)
RunCodes(s, i) ==
    IF i \notin CardTokensOf(s) THEN <<>>
    ELSE <<CardCode(CardRank(s, i), CardSuit(s, i))>> \o RunCodes(s, CARD_PATTERN(s, i) - 1)

\* C1: when the buffer a read cycle classifies is a run of card tokens with a
\* single space between them, the cycle yields one card per token, in the
\* order of the tokens, and leaves the text after the last token: nothing.
C1_CardRun ==
    InCycle /\ IsCardRun(obs.cycle.input)
        => /\ pending = RunCodes(obs.cycle.input, 1)
           /\ text_buffer = <<>>

\* C2: a card token whose first characters were read in an earlier chunk of
\* this connection and whose last character is read in this cycle's chunk
\* yields its card in this cycle.
C2_SplitTokenReassembled ==
    InCycle =>
        \A i \in CardTokensOf(obs.heard) :
            (i <= obs.cycle.before /\ CARD_PATTERN(obs.heard, i) - 1 > obs.cycle.before)
                => CardCode(CardRank(obs.heard, i), CardSuit(obs.heard, i)) \in Codes(pending)

\* C3: the buffer the alarm, warning and failed-read passes of a read cycle
\* leave has no match of the alarm pattern, none of the warning pattern and
\* none of the failed-read pattern.
C3_NothingLeftToMatch ==
    InCycle => /\ AlarmMatches(obs.cycle.stripped) = <<>>
               /\ WarningMatches(obs.cycle.stripped) = <<>>
               /\ FailedMatches(obs.cycle.stripped) = <<>>

\* the alarm message names a read failure
MentionsReadFailure(msg) ==
    \E i \in 1..Len(msg) : LitAt(msg, i, <<"c","a","r","d"," ","n","o","t"," ","r","e","a","d">>)
                           \/ LitAt(msg, i, <<"e","3">>)
IsAlarmNotice(n, msg)      == n.kind = "error" /\ n.text = <<"ALARM: ">> \o msg
IsReadFailedNotice(n, msg) == n.kind = "card" /\ ~n.success /\ n.text = <<"FAIL: ">> \o msg
\* the positions of text s that no match of ms covers
Uncovered(s, ms) ==
    {p \in 1..Len(s) : \A k \in 1..Len(ms) : p < ms[k][1] \/ p >= ms[k][2]}

\* C4: of the callbacks a read cycle schedules, the alarm notifications with
\* a given message are as many as the alarm matches of the buffer with that
\* message; the read-failure notifications with that message are as many
\* when the message names a read failure, and none otherwise; no other
\* notification carries an alarm's text; and the buffer after the alarm pass
\* is the buffer without the characters of the alarm matches.
C4_AlarmNotifications ==
    InCycle =>
        LET b0   == obs.cycle.input
            ms   == AlarmMatches(b0)
            msgs == {AlarmMessage(b0, ms[k][1]) : k \in 1..Len(ms)}
            kept == Uncovered(b0, ms)
        IN  /\ \A msg \in msgs :
                 LET n == Cardinality({k \in 1..Len(ms) : AlarmMessage(b0, ms[k][1]) = msg})
                 IN  /\ Count(NewCallbacks, LAMBDA c : IsAlarmNotice(c, msg)) = n
                     /\ Count(NewCallbacks, LAMBDA c : IsReadFailedNotice(c, msg))
                            = IF MentionsReadFailure(msg) THEN n ELSE 0
            /\ Count(NewCallbacks, LAMBDA c : \E msg \in msgs : IsAlarmNotice(c, msg))
                   = Count(NewCallbacks, LAMBDA c : c.text # <<>> /\ c.text[1] = "ALARM: ")
            /\ Count(NewCallbacks, LAMBDA c : \E msg \in msgs : IsReadFailedNotice(c, msg))
                   = Count(NewCallbacks, LAMBDA c : c.text # <<>> /\ c.text[1] = "FAIL: ")
            /\ Len(obs.cycle.after_alarms) = Cardinality(kept)
            /\ \A p \in kept :
                   obs.cycle.after_alarms[Cardinality({q \in kept : q <= p})] = b0[p]

\* a cycle over a buffer with the alarm "E3 Card Not Read" has scheduled the
\* alarm and one read failure for it
C4_Witness ==
    /\ InCycle
    /\ \E k \in 1..Len(AlarmMatches(obs.cycle.input)) :
           Lower(AlarmMessage(obs.cycle.input, AlarmMatches(obs.cycle.input)[k][1]))
               = <<"e","3"," ">> \o LIT_CARD_NOT_READ
    /\ Count(NewCallbacks, LAMBDA c : c.kind = "card" /\ ~c.success) = 1
    /\ Len(obs.cycle.after_alarms) < Len(obs.cycle.input)

\* C5: at the end of a read cycle the buffer has at most 2000 characters;
\* it is the last 1000 characters of the buffer the passes left when that
\* was longer than 2000 characters, and that buffer itself otherwise.
C5_BufferCap ==
    obs.cycle_end =>
        /\ Len(text_buffer) <= 2000
        /\ Len(obs.precap) > 2000
               => /\ Len(text_buffer) = 1000
                  /\ \A k \in 1..1000 : text_buffer[k] = obs.precap[Len(obs.precap) - 1000 + k]
        /\ Len(obs.precap) <= 2000 => text_buffer = obs.precap

\* a cycle has classified 2500 characters with no token in them, and the
\* buffer is 1000 characters long
C5_Witness ==
    /\ obs.cycle_end
    /\ InCycle
    /\ Len(obs.cycle.input) = 2500
    /\ obs.cycle.stripped = obs.cycle.input
    /\ scheduled = <<on_connected>>
    /\ Len(text_buffer) = 1000

(***************************************************************************)
(* Properties of the worker thread                                         *)
(***************************************************************************)
\* the step is an attempt to open the device
OpenAttempt == pc = "open" /\ pc' # "open"
\* the step reads a chunk and classifies it
BeginsCycle == pc = "read" /\ wire' # wire
\* the step is a read that raised an error
ReadError == pc = "read" /\ pc' \in {"retry_read", "exc_sleep"}

\* the stop request arrived while the worker was in a retry delay
StoppedInDelay == obs.stop_at \in {"retry_open", "retry_read"}

\* C6: once the stop flag is set, no step of the worker attempts to open the
\* device and none begins a read cycle.
C6_NoNewWorkAfterStop ==
    [][stop_event => ~OpenAttempt /\ ~BeginsCycle]_vars

\* C7: when the stop request arrived while the worker was in a retry delay,
\* the worker is in that delay, at the test of the stop flag, or past its
\* loop: it is never again at the test of the handle or at an open attempt.
C7_NoOpenAfterStopInDelay ==
    StoppedInDelay => pc \in {"retry_open", "retry_read", "loop", "cleanup", "done"}

\* the stop request arrived in a retry delay and the worker has terminated
C7_Witness ==
    /\ StoppedInDelay
    /\ pc = "done"
    /\ ser # "open"

\* C8: when the stop request arrived while the worker was in its poll sleep
\* or in a retry delay and more than one poll interval has passed since,
\* the worker has terminated and holds no open handle.
C8_StopsWithinPollInterval ==
    (obs.stop_at = "poll_sleep" \/ StoppedInDelay) /\ obs.since_stop > 1
        => pc = "done" /\ ser # "open"

\* C9: a read that raises an error schedules the disconnected notification,
\* drops the handle and starts the retry delay (after which the worker
\* opens the device again).
C9_ReadErrorReconnects ==
    [][ReadError => /\ scheduled' = Append(scheduled, on_disconnected)
                    /\ ser' = "none"
                    /\ pc' = "retry_read"
                    /\ sleep_left' = RETRY_DELAY]_vars

\* C10: when an open attempt has succeeded after a failed one, the callbacks
\* scheduled from the failed attempt on are one error and then one
\* connected, and the retry delay has passed between the two attempts.
C10_ErrorThenConnected ==
    obs.recovery.mark # -1 =>
        LET since == SubSeq(scheduled, obs.recovery.mark + 1, obs.recovery.len)
        IN  /\ Len(since) = 2
            /\ since[1].kind = "error"
            /\ since[2].kind = "connected"
            /\ obs.recovery.waited >= 50

\* an open attempt has failed and the next one has succeeded
C10_Witness ==
    /\ obs.recovery.mark # -1
    /\ ser = "open"
    /\ pc = "read"

\* sub is text with some of its characters left out
RECURSIVE IsSubsequence(_, _)
IsSubsequence(sub, text) ==
    IF sub = <<>> THEN TRUE
    ELSE IF text = <<>> THEN FALSE
    ELSE IF Head(sub) = Head(text) THEN IsSubsequence(Tail(sub), Tail(text))
    ELSE IsSubsequence(sub, Tail(text))

\* C11: in the state a successful open leaves the buffer is empty and no
\* card waits for its dispatch, and the buffer every read cycle classifies
\* is made of characters read on the present connection only.
C11_BufferResetOnOpen ==
    /\ obs.open_drop # -1 => text_buffer = <<>> /\ pending = <<>>
    /\ InCycle => IsSubsequence(obs.cycle.input, obs.heard)

\* the device has just been opened again after a read error that left
\* characters in the buffer
C11_Witness ==
    /\ obs.open_drop > 0
    /\ text_buffer = <<>>
    /\ \E k \in 1..Len(scheduled) : scheduled[k] = on_disconnected


(***************************************************************************)
(* Properties of the dispatch                                              *)
(***************************************************************************)
\* the state is the one a dispatch of a card has just left
Dispatched == obs.post.card # <<>>
\* a canonical card code: a suit letter, then a rank letter with T for ten
IsCanonical(card) ==
    /\ Len(card) = 2
    /\ card[1] \in {"C", "D", "H", "S"}
    /\ card[2] \in {"2", "3", "4", "5", "6", "7", "8", "9", "T", "J", "Q", "K", "A"}

\* the notifications of cards read, in the order they were emitted
IsCardNotice(n) == n.kind = "card" /\ on_card_received(n.text, TRUE) # "[FAIL]"
CardNotices == SelectSeq(scheduled, IsCardNotice)

\* C12: when the dispatch of a classified card has returned, true or false,
\* the worker has emitted, after the POST of that card, a card notification
\* that carries the card's canonical code and success = true; the card
\* notifications emitted so far are those of the cards POSTed so far.
C12_CardNotifiedAsSuccess ==
    Dispatched =>
        /\ IsCanonical(obs.post.card)
        /\ posts # <<>> /\ posts[Len(posts)] = obs.post.card
        /\ scheduled[Len(scheduled)] = on_card(obs.post.card, TRUE)
        /\ on_card_received(obs.post.card, scheduled[Len(scheduled)].success) = "[OK]"
        /\ CardNotices = [k \in 1..Len(posts) |-> on_card(posts[k], TRUE)]
\* a dispatch that returned false (status 500) has been notified
C12_Witness ==
    /\ Dispatched /\ ~obs.post.ok /\ obs.post.resp = 500
    /\ scheduled[Len(scheduled)].success

\* a card token stands at place i of text s, the spaces around it left out:
\* the tag in brackets, '<Card:', a rank, a suit and '>'
IsCardBody(s, i) ==
    /\ s[i] = "["
    /\ LET t == OperationTag(s, i + 1)
       IN  /\ t # 0 /\ LitAt(s, t, LIT_CARD)
           /\ LET r == RankEnd(s, t + Len(LIT_CARD))
              IN  /\ r # 0 /\ r < Len(s)
                  /\ LowerOf[s[r]] \in {"c", "d", "h", "s"}
                  /\ s[r + 1] = ">"
\* the card codes of the card tokens of text s, from place i on, in the order
\* of the places the tokens begin at
RECURSIVE TokenCodes(_, _)
TokenCodes(s, i) ==
    IF i > Len(s) THEN <<>>
    ELSE (IF IsCardBody(s, i)
          THEN <<CardCode(CardRank(s, i - 1), CardSuit(s, i - 1))>> ELSE <<>>)
         \o TokenCodes(s, i + 1)

\* C13: the cards POSTed so far, followed by the cards the present cycle has
\* still to POST one after the other, stand in the order their tokens have
\* in the stream read so far, over any number of read cycles.
C13_DispatchInStreamOrder ==
    IsSubsequence(posts \o pending, TokenCodes(obs.heard, 1))
\* a later cycle has classified a card other than the one POSTed before it
C13_Witness ==
    /\ InCycle /\ obs.cycle.before > 0
    /\ posts # <<>> /\ pending # <<>> /\ Head(pending) # posts[Len(posts)]

(***************************************************************************)
(* Properties of the notifications                                         *)
(***************************************************************************)
\* the priority class of a notification: 1 derived from an alarm, 2 a
\* warning, 3 a failed read, 4 a card; 0 for a lifecycle transition
NoticeClass(n) ==
    IF n.text = <<>> THEN 0
    ELSE IF n.kind = "error" /\ n.text[1] = "ALARM: " THEN 1
    ELSE IF n.kind = "card" /\ n.text[1] = "FAIL: " THEN 1
    ELSE IF n.kind = "error" /\ n.text[1] = "Warning: " THEN 2
    ELSE IF n.kind = "card" /\ n.text[1] = "FAIL: Unreadable" THEN 3
    ELSE IF n.kind = "card" THEN 4
    ELSE 0
\* the notifications of seq that have class c, in the order of seq
OfClass(seq, c) == SelectSeq(seq, LAMBDA n : NoticeClass(n) = c)
\* the notifications the read cycle in progress has emitted so far
CycleNotices == SubSeq(scheduled, obs.during.mark + 1, Len(scheduled))
\* one alarm event, and one read-failure event when the message names one
AlarmEvents(msg) ==
    IF MentionsReadFailure(msg)
    THEN <<on_error(<<"ALARM: ">> \o msg), on_card(<<"FAIL: ">> \o msg, FALSE)>>
    ELSE <<on_error(<<"ALARM: ">> \o msg)>>
\* the notifications the callbacks the Clock has run so far were made for
Delivered == SubSeq(scheduled, 1, delivered)
\* the status label after the observer received the notifications of seq
RECURSIVE StatusAfter(_)
StatusAfter(seq) ==
    IF seq = <<>> THEN "Disconnected"
    ELSE LET n == seq[Len(seq)]
         IN  IF n.kind = "connected" THEN "Connected"
             ELSE IF n.kind = "disconnected" THEN "Disconnected (retrying...)"
             ELSE IF n.kind = "error" THEN "Error"
             ELSE StatusAfter(SubSeq(seq, 1, Len(seq) - 1))

\* C14: the notifications of one read cycle are emitted class after class
\* (alarm-derived, warnings, failed reads, cards); those of a class are one
\* per event of that class, in the order of the matches from left to right;
\* and the observer has received the notifications of all cycles and of the
\* lifecycle transitions in the order the worker emitted them: its history
\* and its status are those the emitted sequence, up to the last callback
\* run, gives.
C14_NotificationOrder ==
    /\ obs.during.mark # -1 =>
          LET b0     == obs.during.input
              b1     == obs.during.after_alarms
              b3     == obs.during.stripped
              alarms == AlarmMatches(b0)
              warns  == WarningMatches(b1)
              cards  == CardMatches(b3)
              notes  == CycleNotices
          IN  /\ \A i, j \in 1..Len(notes) :
                     i < j => /\ NoticeClass(notes[i]) >= 1
                              /\ NoticeClass(notes[i]) <= NoticeClass(notes[j])
              /\ OfClass(notes, 1)
                   = Flatten([k \in 1..Len(alarms) |-> AlarmEvents(AlarmMessage(b0, alarms[k][1]))])
              /\ OfClass(notes, 2)
                   = [k \in 1..Len(warns) |->
                         on_error(<<"Warning: ">> \o WarningCode(b1, warns[k][1], warns[k][2]))]
              /\ OfClass(notes, 3)
                   = [k \in 1..Len(FailedMatches(RemoveWarnings(b1))) |->
                         on_card(<<"FAIL: Unreadable">>, FALSE)]
              /\ OfClass(notes, 4) \o [k \in 1..Len(pending) |-> on_card(pending[k], TRUE)]
                   = [k \in 1..Len(cards) |->
                         on_card(CardCode(CardRank(b3, cards[k][1]), CardSuit(b3, cards[k][1])), TRUE)]
    /\ history = [k \in 1..Len(SelectSeq(Delivered, LAMBDA n : n.kind = "card")) |->
                     LET n == SelectSeq(Delivered, LAMBDA m : m.kind = "card")[k]
                     IN  on_card_received(n.text, n.success)]
    /\ status = StatusAfter(Delivered)
\* a cycle over text with a card, a failed read, a warning and an alarm, in
\* that order, has emitted a notification of each class, and the Clock has
\* run callbacks of this cycle
C14_Witness ==
    /\ obs.during.mark # -1
    /\ {NoticeClass(CycleNotices[k]) : k \in 1..Len(CycleNotices)} = {1, 2, 3, 4}
    /\ delivered >= obs.during.mark + 3
    /\ history # <<>>
    /\ status = "Error"

\* C16: every card a read cycle classified is POSTed exactly once: the cards
\* POSTed so far, followed by the cards of the present cycle not yet POSTed,
\* are the cards classified so far, each token of the stream is classified
\* at most once, and cards wait to be POSTed only in the dispatch loop.
C16_OnePostPerCard ==
    /\ posts \o pending = obs.classified
    /\ IsSubsequence(obs.classified, TokenCodes(obs.heard, 1))
    /\ pending # <<>> => pc = "dispatch"
\* the POST of the second card of the stream timed out and was not repeated
C16_Witness ==
    /\ Dispatched /\ obs.post.resp = -1
    /\ pending = <<>> /\ Len(posts) = 2 /\ Len(obs.classified) = 2

\* C17: the dispatcher returns true exactly when a response came with a
\* status from 200 to 299; it returns false for every other status, for a
\* timeout and for a transport error, and the worker goes on with its
\* dispatch loop or its poll sleep: no exception left the dispatcher.
C17_DispatcherResult ==
    Dispatched =>
        /\ obs.post.ok <=> obs.post.resp \in 200..299
        /\ obs.post.resp \in {-1, -2, 199, 300, 404, 500} => ~obs.post.ok
        /\ pc = (IF pending # <<>> THEN "dispatch" ELSE "poll_sleep")
\* status 299 gave true, after the dispatch of an earlier card had returned
C17_Witness ==
    /\ Dispatched /\ obs.post.resp = 299 /\ obs.post.ok
    /\ Len(posts) = 2

(***************************************************************************)
(* Properties of the configuration                                         *)
(***************************************************************************)
\* the configuration the session of the worker was started with
SessionConfig == DefaultConfig

\* C15: every dispatch of the worker uses the host, the port and the path
\* the configuration held when the worker's session was started, whatever
\* is saved after that.
C15_DispatchUsesSessionConfig ==
    Dispatched => obs.post.config = SessionConfig

(***************************************************************************)
(* Properties of the normalizer                                            *)
(***************************************************************************)
\* the rank and the suit of the token the device wrote
GivenRank == CardRank(wire, 1)
GivenSuit == CardSuit(wire, 1)
\* a rank as a value: its letter in upper case, and T for ten
RankValue(rank) == IF rank = <<"1", "0">> THEN "T" ELSE UpperOf[rank[1]]

JustConnected ==
    /\ pc = "read" /\ ser = "open"
    /\ scheduled # <<>> /\ scheduled[Len(scheduled)] = on_connected

\* C20: while no stop is requested the worker never leaves its loop; an open
\* that does not succeed puts it to sleep for RETRY_DELAY, whatever the
\* number of opens that failed before; and after every failed open the
\* worker, with the device openable in the end, opens it and emits
\* connected.
C20_RetriesUntilConnected ==
    /\ [](~stop_event => pc \notin {"cleanup", "done"})
    /\ [][pc = "open" /\ pc' # "read" => pc' = "retry_open" /\ sleep_left' = RETRY_DELAY]_vars
    /\ (pc = "retry_open") ~> JustConnected
\* the device is open after as many failed opens as the device can fail
C20_Witness ==
    /\ JustConnected
    /\ faults = MaxFaults
    /\ Len(scheduled) = MaxFaults + 1
    /\ \A k \in 1..MaxFaults : scheduled[k].kind = "error"
    /\ obs.recovery.waited = RETRY_DELAY

(***************************************************************************)
(* Properties of the end of the worker                                     *)
(***************************************************************************)
\* C21: after a stop request, wherever the worker was when it came, the
\* worker terminates; when it has terminated its handle is not open; and
\* the worker never opens the device while it holds an open handle, so no
\* handle it opened is lost open.
C21_TerminatesWithHandleClosed ==
    /\ stop_event ~> (pc = "done")
    /\ [](pc = "done" => ser # "open")
    /\ [](pc = "open" => ser # "open")
\* the worker has terminated after a stop request that came when it was about
\* to open the device: it opened the device and closed it in its cleanup
C21_Witness ==
    /\ pc = "done" /\ ser = "closed"
    /\ obs.stop_at = "open"
    /\ \E k \in 1..Len(scheduled) : scheduled[k] = on_connected

(***************************************************************************)
(* C22 .. C28                                                              *)
(***************************************************************************)
\* the inputs a start request must be refused for
WrongInputs(t) ==
    \/ t.ip = ""
    \/ t.url = ""
    \/ ~(IsNumeric(t.port) /\ IntOf(t.port) \in 1..65535)
\* a worker has been started in this step
WorkerStarted == starts' = starts + 1

\* C22: a start request whose host or path is empty, or whose port is not an
\* integer of 1..65535, starts no worker and leaves the monitoring flag, the
\* stored configuration and the enabled state of the inputs as they were;
\* every worker that is started has a configuration with a host, a path and a
\* port of 1..65535.
C22_StartValidation ==
    [][/\ (obs'.press.made /\ WrongInputs(obs'.press.inputs))
            => /\ ~WorkerStarted
               /\ UNCHANGED <<is_monitoring, app_config, disabled, starts, extra, pc>>
       /\ WorkerStarted
            => /\ app_config'.ip # "" /\ app_config'.url # ""
               /\ app_config'.port \in 1..65535
               /\ obs'.press.made /\ ~WrongInputs(obs'.press.inputs)]_vars
\* a session has been started and stopped, and the next request is refused
C22_Witness ==
    /\ obs.press.made /\ WrongInputs(obs.press.inputs)
    /\ starts = 1 /\ ~is_monitoring /\ ~disabled
    /\ app_config = Config("10.0.0.7", 9001, "sendCard")

\* the worker threads that have been started and have not ended
Alive == (IF pc \in {"none", "done"} THEN 0 ELSE 1) + extra

\* C28: over any sequence of start and stop requests at most one worker is
\* alive at a time: the worker of a new session never runs next to the worker
\* of the session before, which has not ended yet.
C28_OneWorkerAlive == Alive <= 1

\* an attempt to open the device has failed in this step
OpenFailed == pc = "open" /\ pc' # "open" /\ ser' # "open"
\* the three messages of a SerialException
SerialErrorForms ==
    {<<"Permission denied. Run: sudo usermod -a -G dialout $USER">>,
     <<"Device not found: ", "/dev/ttyUSB0">>,
     <<"Serial error: ", "str(e)">>}
\* the message of any other exception: its text alone
UnexpectedErrorForm == <<"str(e)">>
\* this step emits exactly one notification, an error with a message of forms
OneErrorOf(forms) ==
    \E m \in forms : scheduled' = Append(scheduled, on_error(m))

HasStrippedToken(s) ==
    AlarmMatches(s) # <<>> \/ WarningMatches(s) # <<>> \/ FailedMatches(s) # <<>>

\* C24: when the buffer a read cycle classifies holds alarm, warning or
\* failed-read tokens next to card tokens, each with spaces of its own or
\* sharing the one space between two neighbours, every well-formed card token
\* of the buffer is parsed as a card in that cycle.
C24_StrippingKeepsCards ==
    InCycle /\ HasStrippedToken(obs.cycle.input)
        => \A i \in CardTokensOf(obs.cycle.input) :
               CardCode(CardRank(obs.cycle.input, i), CardSuit(obs.cycle.input, i))
                   \in Codes(pending)

\* the places of text s where the literal lit stands
Occurrences(s, lit) == Cardinality({i \in StartsWith(s, lit[1]) : LitAt(s, i, lit)})
\* the tokens with the mark lit in text s are at least n
AtMostTokens(n, s, lit) == n = 0 \/ n <= Occurrences(s, lit)
\* the characters a token has at least when this notification was made for
\* it: the shortest tag, the text the notification carries, the two spaces
MatchLength(n) ==
    LET c == NoticeClass(n)
    IN  IF c = 1 /\ n.kind = "error"
        THEN Len(LIT_OPEN) + Len(LIT_GAME) + Len(LIT_ALARM) + (Len(n.text) - 1) + Len(LIT_CLOSE)
        ELSE IF c = 2 THEN (Len(n.text) - 1) + 2
        ELSE IF c = 3 THEN Len(LIT_OPEN) + Len(LIT_GAME) + Len(LIT_FAILED)
        ELSE IF c = 4 THEN Len(LIT_OPEN) + Len(LIT_GAME) + Len(LIT_CARD) + 2 + Len(LIT_CLOSE)
        ELSE 0
RECURSIVE ReportedLength(_)
ReportedLength(seq) ==
    IF seq = <<>> THEN 0 ELSE MatchLength(Head(seq)) + ReportedLength(Tail(seq))
\* the notifications of seq made for an alarm, and the read failures among them
AlarmNotices(seq)      == SelectSeq(seq, LAMBDA n : NoticeClass(n) = 1 /\ n.kind = "error")
AlarmReadFailures(seq) == SelectSeq(seq, LAMBDA n : NoticeClass(n) = 1 /\ n.kind = "card")

\* C25: over the read cycles of a connection no token is counted twice: the
\* notifications of a class are at most as many as the tokens of that class
\* in the stream read so far (a read failure of an alarm is one more, once
\* per alarm), and the text of every reported match has left the buffer: the
\* stream is at least as long as the buffer and all reported matches together.
C25_NoDoubleCount ==
    /\ AtMostTokens(Len(AlarmNotices(scheduled)), obs.heard, LIT_ALARM)
    /\ Len(AlarmReadFailures(scheduled)) <= Len(AlarmNotices(scheduled))
    /\ AtMostTokens(Len(OfClass(scheduled, 2)), obs.heard, LIT_WARN)
    /\ AtMostTokens(Len(OfClass(scheduled, 3)), obs.heard, LIT_FAILED)
    /\ AtMostTokens(Len(OfClass(scheduled, 4)) + Len(pending), obs.heard, LIT_CARD)
    /\ Len(obs.heard) >= Len(text_buffer) + ReportedLength(scheduled)
                              + Len(pending) * MatchLength(on_card(<<"S4">>, TRUE))
\* text left by an earlier cycle, which reported a failed read, has gone
\* through a second cycle that reported something too
C25_Witness ==
    /\ InCycle /\ obs.cycle.before > 0
    /\ Len(obs.cycle.input) > Len(obs.heard) - obs.cycle.before
    /\ NewCallbacks # <<>>
    /\ \E k \in 1..obs.cycle.mark : NoticeClass(scheduled[k]) = 3

\* the place after the end of the last match of the card pattern in text s
LastCardEnd(s) == LET ms == CardMatches(s) IN ms[Len(ms)][2]

\* C26: when the card pass of a read cycle finds a match, the buffer it
\* leaves is the text after the end of the last match, nothing more and
\* nothing less; when it finds none, it leaves the buffer as the passes
\* before it left it.
C26_CardPassFrame ==
    InCycle =>
        LET b == obs.cycle.stripped
        IN  IF CardMatches(b) # <<>>
            THEN /\ pending # <<>>
                 /\ \E e \in {LastCardEnd(b)} :
                        /\ Len(text_buffer) = Len(b) - e + 1
                        /\ \A k \in 1..Len(text_buffer) : text_buffer[k] = b[e + k - 1]
            ELSE /\ pending = <<>>
                 /\ obs.cycle_end /\ obs.precap = b
\* in a later cycle the card pass found a match after the text an earlier
\* cycle had left, and has left the text after it
C26_Witness ==
    /\ InCycle /\ obs.cycle.before > 0
    /\ Len(CardMatches(obs.cycle.stripped)) = 1
    /\ Len(obs.cycle.stripped) > Len(obs.heard) - obs.cycle.before
    /\ text_buffer # <<>>

\* toggle_monitoring has stopped the session and no new one has been started
SessionStopped == stop_pc = "returned" /\ ~is_monitoring

\* C27: once toggle_monitoring has stopped a session, no notification of the
\* stopped worker reaches the observer: no callback of it is run, the status
\* stays "Stopped" and the history stays as it is until a new session starts.
C27_StoppedStaysStopped ==
    [][SessionStopped /\ SessionStopped'
          => /\ delivered' = delivered
             /\ status' = "Stopped"
             /\ history' = history]_vars
=============================================================================
